---- MODULE Spec2Model ----
(***************************************************************************)
(* A model of vit.test_2.py: the construction of the ViT module, the       *)
(* training loop and the testing loop of main().                           *)
(*                                                                         *)
(* Tensors are abstracted.  A parameter group is the number of optimiser   *)
(* updates it has received and whether its values are still finite; a      *)
(* gradient is the set of batches whose backward pass contributed to it    *)
(* (the empty set is .grad = None); a float is Fin(v) or NaN; the logits   *)
(* of a forward pass are the symbolic record built by ViTForward, given    *)
(* numbers by the map net (image -> logit row) that the trained            *)
(* parameters realise.                                                     *)
(*                                                                         *)
(* The two data loaders are the inputs of main(): train_loader yields      *)
(* trainBatches batches in every epoch, test_dataloader yields any finite  *)
(* number of batches of one or more examples, possibly none.               *)
(***************************************************************************)
EXTENDS Integers, Sequences, FiniteSets

VARIABLES
    config,        \* the module-level constants of lines 16-21
    built,         \* outcome of ViT(workers): "pending", "ok", "AssertionError"
    seq_len,       \* token sequence length seen by the last shape-level forward
    pc,            \* position of main()
    trainBatches,  \* len(train_loader): batches per epoch
    epoch,         \* loop variable of line 199
    index,         \* loop variable of line 201
    params,        \* visual_transformer.parameters(), by group
    grads,         \* .grad of each group
    optState,      \* Adam's per-parameter state['step']
    training,      \* visual_transformer.training
    gradEnabled,   \* torch.is_grad_enabled()
    outputs,       \* outputs of the last forward pass
    loss,          \* loss of line 206
    running_loss,  \* running_loss of lines 200, 211, 216
    numReports,    \* number of "Epoch [..], Loss: .." lines printed
    lastReport,    \* the last such line
    net,           \* image -> logit row realised by the parameters in the testing loop
    images,        \* images of the current test batch
    labels,        \* labels of the current test batch
    predicted,     \* predicted of line 232
    correct,       \* correct of lines 226, 234
    total,         \* total of lines 227, 233
    accuracy,      \* the value printed by line 236
    accuracyPrints,\* number of "Test Accuracy" lines printed
    error,         \* the exception that ended the run, if any
    fetched,       \* history: batches drawn from train_loader so far
    batchOps,      \* history: the steps performed on the current training batch
    evalSeen,      \* history: every example the test loader has yielded
    evalLog        \* history: logit rows computed per image by the testing loop

vars == <<config, built, seq_len, pc, trainBatches, epoch, index, params, grads,
          optState, training, gradEnabled, outputs, loss, running_loss, numReports,
          lastReport, net, images, labels, predicted, correct, total, accuracy,
          accuracyPrints, error, fetched, batchOps, evalSeen, evalLog>>

configVars == <<config, built, seq_len>>
trainVars == <<trainBatches, epoch, index, params, grads, optState, outputs, loss,
               running_loss, numReports, lastReport, fetched, batchOps>>
testVars == <<net, images, labels, predicted, correct, total, accuracy,
              accuracyPrints, evalSeen, evalLog>>

(***************************************************************************)
(* Program constants.                                                      *)
(***************************************************************************)
image_size == 224
patch_size == 16
embed_dim == 768
num_heads == 12
num_classes == 2
num_epochs == 7
ReportEvery == 50

(***************************************************************************)
(* Bounds of the model.                                                    *)
(***************************************************************************)
MaxTrainBatches == 51
MaxTestSmall == 2
MaxTestExamples == 4
MaxImageSize == 6
MaxPatchSize == 4
MaxEmbedDim == 4
MaxHeads == 3

TrainBatchCounts == {0, 1, ReportEvery, MaxTrainBatches}
Images == {1, 2}
Labels == 0 .. (num_classes - 1)
LogitRows == {<<1, 0>>, <<0, 1>>, <<1, 1>>}
Nets == [Images -> LogitRows]
Masks == SUBSET {1}

(***************************************************************************)
(* Floats: a finite value or NaN.                                          *)
(***************************************************************************)
Fin(v) == [fin |-> TRUE, v |-> v]
NaN == [fin |-> FALSE, v |-> 0]
IsFinite(x) == x.fin
FAdd(a, b) == IF a.fin /\ b.fin THEN Fin(a.v + b.v) ELSE NaN
\* the finite values a batch loss takes in the model
LossValues == {Fin(1), Fin(2)}

RECURSIVE GCD(_, _)
GCD(a, b) == IF b = 0 THEN a ELSE GCD(b, a % b)
\* n / d as an exact fraction in lowest terms (d > 0).
Ratio(n, d) == <<n \div GCD(n, d), d \div GCD(n, d)>>

(***************************************************************************)
(* Configuration and construction.                                         *)
(***************************************************************************)
ReferenceConfig ==
    [image_size |-> image_size, patch_size |-> patch_size,
     embed_dim |-> embed_dim, num_heads |-> num_heads]

\* line 18: num_patches = (image_size // patch_size) ** 2
num_patches(c) == (c.image_size \div c.patch_size) * (c.image_size \div c.patch_size)

\* nn.TransformerEncoderLayer(d_model=embed_dim, nhead=num_heads) builds an
\* nn.MultiheadAttention, which asserts that embed_dim is divisible by num_heads.
\* Nothing in PatchEmbedding.__init__ or ViT.__init__ looks at image_size % patch_size.
ConstructOutcome(c) ==
    IF c.embed_dim % c.num_heads = 0 THEN "ok" ELSE "AssertionError"

\* PatchEmbedding.forward on an image_size x image_size image: the strided
\* convolution yields floor((H - P) / P) + 1 positions per side, and refuses a
\* kernel larger than the image.
ConvSide(c) == ((c.image_size - c.patch_size) \div c.patch_size) + 1

\* ViT.forward at the level of shapes: patch embedding, class token prepended,
\* position embedding (num_patches + 1 rows) added with broadcasting.
ForwardSeqLen(c) ==
    IF c.image_size < c.patch_size THEN 0
    ELSE LET n == ConvSide(c) * ConvSide(c) + 1
             p == num_patches(c) + 1
         IN IF n = p \/ p = 1 \/ n = 1 THEN (IF n > p THEN n ELSE p) ELSE 0

(***************************************************************************)
(* Parameters.                                                             *)
(***************************************************************************)
ParamGroups == {"patch_embedding", "prepend_embed_token", "position_embed_token",
                "transformer_encoder_layer", "full_transformer_encoder", "mlp_head"}

\* ViT.forward and TransformerEncoder.forward: the layer kept in
\* self.transformer_encoder_layer is only the template nn.TransformerEncoder
\* copies; forward runs the copies.
UsedInForward == {"patch_embedding", "prepend_embed_token", "position_embed_token",
                  "full_transformer_encoder", "mlp_head"}

FreshParams == [g \in ParamGroups |-> [ver |-> 0, finite |-> TRUE]]
NoGrads == [g \in ParamGroups |-> {}]
ParamsFinite == \A g \in UsedInForward : params[g].finite

(***************************************************************************)
(* Forward pass.                                                           *)
(***************************************************************************)
\* Variant of Dropout: the mode is ignored.
DropoutAlways(mode, mask) == mask

\* nn.Dropout: drops the units of the drawn mask in training mode, identity otherwise.
Dropout(mode, mask) == IF mode THEN mask ELSE {}

ViTForward(input, mode, grad, mask) ==
    [input |-> input, dropped |-> Dropout(mode, mask), training |-> mode,
     requires_grad |-> grad]

NoOutputs == [input |-> <<>>, dropped |-> {}, training |-> TRUE, requires_grad |-> FALSE]

\* The numbers of a forward pass on one image.
Logits(f, image, dropped) ==
    [c \in 1 .. num_classes |-> IF c \in dropped THEN 0 ELSE f[image][c]]

\* torch.max(row, 1) indices: the first maximal entry, as a class 0 .. num_classes-1.
ArgMax(row) ==
    (CHOOSE i \in DOMAIN row :
        /\ \A j \in DOMAIN row : row[j] <= row[i]
        /\ \A j \in DOMAIN row : j < i => row[j] < row[i]) - 1

(***************************************************************************)
(* Initial states.                                                         *)
(***************************************************************************)
InitRun(c, b) ==
    /\ config = c
    /\ built = "pending"
    /\ seq_len = 0
    /\ pc = "construct"
    /\ trainBatches = b
    /\ epoch = 0
    /\ index = 0
    /\ params = FreshParams
    /\ grads = NoGrads
    /\ optState = [g \in ParamGroups |-> 0]
    /\ training = TRUE
    /\ gradEnabled = TRUE
    /\ outputs = NoOutputs
    /\ loss = Fin(0)
    /\ running_loss = Fin(0)
    /\ numReports = 0
    /\ lastReport = [epoch |-> 0, index |-> 0, loss |-> Fin(0)]
    /\ net = <<>>
    /\ images = <<>>
    /\ labels = <<>>
    /\ predicted = <<>>
    /\ correct = 0
    /\ total = 0
    /\ accuracy = <<0, 1>>
    /\ accuracyPrints = 0
    /\ error = "none"
    /\ fetched = 0
    /\ batchOps = <<>>
    /\ evalSeen = <<>>
    /\ evalLog = [x \in Images |-> {}]

Init == \E b \in TrainBatchCounts : InitRun(ReferenceConfig, b)


(***************************************************************************)
(* main(): construction and set-up.                                        *)
(***************************************************************************)
\* line 185: visual_transformer = ViT(workers).to(device)
Construct ==
    /\ pc = "construct"
    /\ built' = ConstructOutcome(config)
    /\ IF ConstructOutcome(config) = "ok"
       THEN /\ pc' = "setup"
            /\ error' = error
       ELSE /\ pc' = "crashed"
            /\ error' = ConstructOutcome(config)
    /\ UNCHANGED <<config, seq_len, training, gradEnabled>>
    /\ UNCHANGED trainVars
    /\ UNCHANGED testVars

\* lines 189-197: criterion, optimiser over parameters(), train(), start_time
TrainMode ==
    /\ pc = "setup"
    /\ training' = TRUE
    /\ pc' = "epoch"
    /\ UNCHANGED <<gradEnabled, error>>
    /\ UNCHANGED configVars
    /\ UNCHANGED trainVars
    /\ UNCHANGED testVars

(***************************************************************************)
(* The training loop, lines 199-216.                                       *)
(***************************************************************************)
\* lines 199-200: the next epoch starts with running_loss = 0.0
EpochStart ==
    /\ pc = "epoch"
    /\ epoch < num_epochs
    /\ running_loss' = Fin(0)
    /\ index' = 0
    /\ pc' = "fetch"
    /\ UNCHANGED <<trainBatches, epoch, params, grads, optState, outputs, loss,
                   numReports, lastReport, fetched, batchOps>>
    /\ UNCHANGED <<training, gradEnabled, error>>
    /\ UNCHANGED configVars
    /\ UNCHANGED testVars

\* lines 201-202: enumerate(train_loader) yields the next batch
FetchBatch ==
    /\ pc = "fetch"
    /\ index < trainBatches
    /\ fetched' = fetched + 1
    /\ batchOps' = <<>>
    /\ pc' = "zero_grad"
    /\ UNCHANGED <<trainBatches, epoch, index, params, grads, optState, outputs,
                   loss, running_loss, numReports, lastReport>>
    /\ UNCHANGED <<training, gradEnabled, error>>
    /\ UNCHANGED configVars
    /\ UNCHANGED testVars

\* line 201: train_loader is exhausted; back to line 199
EpochEnd ==
    /\ pc = "fetch"
    /\ index >= trainBatches
    /\ epoch' = epoch + 1
    /\ pc' = "epoch"
    /\ UNCHANGED <<trainBatches, index, params, grads, optState, outputs, loss,
                   running_loss, numReports, lastReport, fetched, batchOps>>
    /\ UNCHANGED <<training, gradEnabled, error>>
    /\ UNCHANGED configVars
    /\ UNCHANGED testVars

\* Variant of ZeroGrad: the gradients are not cleared.
ZeroGradKeeps ==
    /\ pc = "zero_grad"
    /\ batchOps' = Append(batchOps, "zero_grad")
    /\ pc' = "forward"
    /\ UNCHANGED <<trainBatches, epoch, index, params, grads, optState, outputs, loss,
                   running_loss, numReports, lastReport, fetched>>
    /\ UNCHANGED <<training, gradEnabled, error>>
    /\ UNCHANGED configVars
    /\ UNCHANGED testVars

\* line 204: optimiser.zero_grad()
ZeroGrad ==
    /\ pc = "zero_grad"
    /\ grads' = NoGrads
    /\ batchOps' = Append(batchOps, "zero_grad")
    /\ pc' = "forward"
    /\ UNCHANGED <<trainBatches, epoch, index, params, optState, outputs, loss,
                   running_loss, numReports, lastReport, fetched>>
    /\ UNCHANGED <<training, gradEnabled, error>>
    /\ UNCHANGED configVars
    /\ UNCHANGED testVars

\* line 205: outputs = visual_transformer(inputs); dropout draws its mask.  A
\* configuration whose shapes do not fit raises here, in the first forward pass.
TrainForward ==
    /\ pc = "forward"
    /\ seq_len' = ForwardSeqLen(config)
    /\ IF ForwardSeqLen(config) = 0
       THEN /\ pc' = "crashed"
            /\ error' = "RuntimeError"
            /\ UNCHANGED <<outputs, batchOps>>
       ELSE /\ \E mask \in Masks :
                  outputs' = ViTForward(<<epoch, index>>, training, gradEnabled, mask)
            /\ batchOps' = Append(batchOps, "forward")
            /\ pc' = "loss"
            /\ error' = error
    /\ UNCHANGED <<trainBatches, epoch, index, params, grads, optState, loss,
                   running_loss, numReports, lastReport, fetched>>
    /\ UNCHANGED <<config, built, training, gradEnabled>>
    /\ UNCHANGED testVars

\* line 206: loss = criterion(outputs, labels).  The value depends on the data;
\* it is NaN when the logits are not finite (non-finite parameters, or overflow).
\* Nothing inspects the value: line 208 follows whatever it is.
Criterion ==
    /\ pc = "loss"
    /\ \E l \in (IF ParamsFinite THEN LossValues \cup {NaN} ELSE {NaN}) : loss' = l
    /\ batchOps' = Append(batchOps, "loss")
    /\ pc' = "backward"
    /\ UNCHANGED <<trainBatches, epoch, index, params, grads, optState, outputs,
                   running_loss, numReports, lastReport, fetched>>
    /\ UNCHANGED <<training, gradEnabled, error>>
    /\ UNCHANGED configVars
    /\ UNCHANGED testVars

\* line 208: loss.backward() adds this batch's gradient to .grad of every
\* parameter the forward pass used
Backward ==
    /\ pc = "backward"
    /\ grads' = [g \in ParamGroups |->
                    IF g \in UsedInForward /\ outputs.requires_grad
                    THEN grads[g] \cup {<<epoch, index>>}
                    ELSE grads[g]]
    /\ batchOps' = Append(batchOps, "backward")
    /\ pc' = "step"
    /\ UNCHANGED <<trainBatches, epoch, index, params, optState, outputs, loss,
                   running_loss, numReports, lastReport, fetched>>
    /\ UNCHANGED <<training, gradEnabled, error>>
    /\ UNCHANGED configVars
    /\ UNCHANGED testVars

\* Adam.step(): a parameter whose .grad is None is skipped; every other one is
\* updated (gradient plus weight decay), and takes the gradient's non-finiteness.
AdamStep(p, g, lossFinite) ==
    [x \in ParamGroups |->
        IF g[x] = {} THEN p[x]
        ELSE [ver |-> p[x].ver + 1, finite |-> p[x].finite /\ lossFinite]]

\* line 209: optimiser.step()
OptimiserStep ==
    /\ pc = "step"
    /\ params' = AdamStep(params, grads, IsFinite(loss))
    /\ optState' = [g \in ParamGroups |->
                       IF grads[g] = {} THEN optState[g] ELSE optState[g] + 1]
    /\ batchOps' = Append(batchOps, "step")
    /\ pc' = "accumulate"
    /\ UNCHANGED <<trainBatches, epoch, index, grads, outputs, loss, running_loss,
                   numReports, lastReport, fetched>>
    /\ UNCHANGED <<training, gradEnabled, error>>
    /\ UNCHANGED configVars
    /\ UNCHANGED testVars

\* line 211: running_loss += loss.item()
Accumulate ==
    /\ pc = "accumulate"
    /\ running_loss' = FAdd(running_loss, loss)
    /\ batchOps' = Append(batchOps, "accumulate")
    /\ pc' = "report"
    /\ UNCHANGED <<trainBatches, epoch, index, params, grads, optState, outputs,
                   loss, numReports, lastReport, fetched>>
    /\ UNCHANGED <<training, gradEnabled, error>>
    /\ UNCHANGED configVars
    /\ UNCHANGED testVars

\* Variant of ReportDue: the test is made on index, not index + 1.
ReportDueOnIndex(i) == i % ReportEvery = 0

\* line 212: if (index+1) % 50 == 0
ReportDue(i) == (i + 1) % ReportEvery = 0

\* line 214: the value printed is loss.item()
ReportedLoss == loss

\* lines 212-216, condition true: print the loss and the timer, reset running_loss
Report ==
    /\ pc = "report"
    /\ ReportDue(index)
    /\ numReports' = numReports + 1
    /\ lastReport' = [epoch |-> epoch + 1, index |-> index, loss |-> ReportedLoss]
    /\ running_loss' = Fin(0)
    /\ index' = index + 1
    /\ pc' = "fetch"
    /\ UNCHANGED <<trainBatches, epoch, params, grads, optState, outputs, loss,
                   fetched, batchOps>>
    /\ UNCHANGED <<training, gradEnabled, error>>
    /\ UNCHANGED configVars
    /\ UNCHANGED testVars

\* line 212, condition false
NoReport ==
    /\ pc = "report"
    /\ ~ReportDue(index)
    /\ index' = index + 1
    /\ pc' = "fetch"
    /\ UNCHANGED <<trainBatches, epoch, params, grads, optState, outputs, loss,
                   running_loss, numReports, lastReport, fetched, batchOps>>
    /\ UNCHANGED <<training, gradEnabled, error>>
    /\ UNCHANGED configVars
    /\ UNCHANGED testVars


(***************************************************************************)
(* The testing loop, lines 218-238.                                        *)
(***************************************************************************)
\* Variant of EvalMode: the training loop is left one epoch early.
EvalModeEarly ==
    /\ pc = "epoch"
    /\ epoch >= num_epochs - 1
    /\ training' = FALSE
    /\ gradEnabled' = FALSE
    /\ correct' = 0
    /\ total' = 0
    /\ \E f \in Nets : net' = f
    /\ pc' = "test_fetch"
    /\ UNCHANGED <<images, labels, predicted, accuracy, accuracyPrints, evalSeen, evalLog, error>>
    /\ UNCHANGED configVars
    /\ UNCHANGED trainVars

\* lines 199, 218-227: the epochs are over; eval(), torch.no_grad(), correct = total = 0.
\* From here on the parameters realise one map from images to logit rows.
EvalMode ==
    /\ pc = "epoch"
    /\ epoch >= num_epochs
    /\ training' = FALSE
    /\ gradEnabled' = FALSE
    /\ correct' = 0
    /\ total' = 0
    /\ \E f \in Nets : net' = f
    /\ pc' = "test_fetch"
    /\ UNCHANGED <<images, labels, predicted, accuracy, accuracyPrints, evalSeen, evalLog, error>>
    /\ UNCHANGED configVars
    /\ UNCHANGED trainVars

\* lines 228-230: test_dataloader yields a batch of one or more examples
TestFetch(limit) ==
    /\ pc = "test_fetch"
    /\ \E n \in 1 .. (limit - Len(evalSeen)) :
          \E imgs \in [1 .. n -> Images], lbls \in [1 .. n -> Labels] :
             /\ images' = imgs
             /\ labels' = lbls
             /\ evalSeen' = evalSeen \o [i \in 1 .. n |->
                                            [image |-> imgs[i], label |-> lbls[i]]]
    /\ pc' = "test_forward"
    /\ UNCHANGED <<net, predicted, correct, total, accuracy, accuracyPrints, evalLog>>
    /\ UNCHANGED <<training, gradEnabled, error>>
    /\ UNCHANGED configVars
    /\ UNCHANGED trainVars

\* line 228: test_dataloader is exhausted
TestExhausted ==
    /\ pc = "test_fetch"
    /\ pc' = "print"
    /\ UNCHANGED <<training, gradEnabled, error>>
    /\ UNCHANGED configVars
    /\ UNCHANGED trainVars
    /\ UNCHANGED testVars

\* line 231: outputs = visual_transformer(images)
TestForward ==
    /\ pc = "test_forward"
    /\ seq_len' = ForwardSeqLen(config)
    /\ IF ForwardSeqLen(config) = 0
       THEN /\ pc' = "crashed"
            /\ error' = "RuntimeError"
            /\ gradEnabled' = TRUE
            /\ UNCHANGED <<outputs, evalLog>>
       ELSE /\ \E mask \in Masks :
                  /\ outputs' = ViTForward(images, training, gradEnabled, mask)
                  /\ evalLog' = [x \in Images |->
                        evalLog[x] \cup
                        {Logits(net, images[i], Dropout(training, mask)) :
                            i \in {j \in DOMAIN images : images[j] = x}}]
            /\ pc' = "test_predict"
            /\ UNCHANGED <<gradEnabled, error>>
    /\ UNCHANGED <<trainBatches, epoch, index, params, grads, optState, loss,
                   running_loss, numReports, lastReport, fetched, batchOps>>
    /\ UNCHANGED <<net, images, labels, predicted, correct, total, accuracy, accuracyPrints, evalSeen>>
    /\ UNCHANGED <<config, built, training>>

\* line 232: _, predicted = torch.max(outputs.data, 1)
TestPredict ==
    /\ pc = "test_predict"
    /\ predicted' = [i \in DOMAIN images |->
                        ArgMax(Logits(net, images[i], outputs.dropped))]
    /\ pc' = "test_count"
    /\ UNCHANGED <<net, images, labels, correct, total, accuracy, accuracyPrints, evalSeen, evalLog>>
    /\ UNCHANGED <<training, gradEnabled, error>>
    /\ UNCHANGED configVars
    /\ UNCHANGED trainVars

\* Variant of NewTotal: counts batches, not examples.
NewTotalBatches(t, lbls) == t + 1

\* line 233: total += labels.size(0)
NewTotal(t, lbls) == t + Len(lbls)

\* line 234: correct += (predicted == labels).sum().item()
NewCorrect(c, pred, lbls) ==
    c + Cardinality({i \in DOMAIN lbls : pred[i] = lbls[i]})

\* Variant of TestCount: the testing loop also clears the gradients.
TestCountZeroGrad ==
    /\ pc = "test_count"
    /\ total' = NewTotal(total, labels)
    /\ correct' = NewCorrect(correct, predicted, labels)
    /\ grads' = NoGrads
    /\ pc' = "test_fetch"
    /\ UNCHANGED <<net, images, labels, predicted, accuracy, accuracyPrints, evalSeen, evalLog>>
    /\ UNCHANGED <<training, gradEnabled, error>>
    /\ UNCHANGED configVars
    /\ UNCHANGED <<trainBatches, epoch, index, params, optState, outputs, loss,
                   running_loss, numReports, lastReport, fetched, batchOps>>

\* lines 233-234
TestCount ==
    /\ pc = "test_count"
    /\ total' = NewTotal(total, labels)
    /\ correct' = NewCorrect(correct, predicted, labels)
    /\ pc' = "test_fetch"
    /\ UNCHANGED <<net, images, labels, predicted, accuracy, accuracyPrints, evalSeen, evalLog>>
    /\ UNCHANGED <<training, gradEnabled, error>>
    /\ UNCHANGED configVars
    /\ UNCHANGED trainVars

\* line 236: print(100 * correct / total); the division raises when total is 0,
\* and the exception leaves the torch.no_grad() block
PrintAccuracy ==
    /\ pc = "print"
    /\ IF total = 0
       THEN /\ pc' = "crashed"
            /\ error' = "ZeroDivisionError"
            /\ gradEnabled' = TRUE
            /\ UNCHANGED <<accuracy, accuracyPrints>>
       ELSE /\ accuracy' = Ratio(100 * correct, total)
            /\ accuracyPrints' = accuracyPrints + 1
            /\ pc' = "finish"
            /\ UNCHANGED <<gradEnabled, error>>
    /\ UNCHANGED <<net, images, labels, predicted, correct, total, evalSeen, evalLog>>
    /\ UNCHANGED training
    /\ UNCHANGED configVars
    /\ UNCHANGED trainVars

\* lines 237-238: the torch.no_grad() block ends, the timing is printed
Finish ==
    /\ pc = "finish"
    /\ gradEnabled' = TRUE
    /\ pc' = "done"
    /\ UNCHANGED <<training, error>>
    /\ UNCHANGED configVars
    /\ UNCHANGED trainVars
    /\ UNCHANGED testVars

(***************************************************************************)
(* Specifications.                                                         *)
(***************************************************************************)
TrainStep ==
    \/ EpochStart
    \/ FetchBatch
    \/ EpochEnd
    \/ ZeroGrad
    \/ TrainForward
    \/ Criterion
    \/ Backward
    \/ OptimiserStep
    \/ Accumulate
    \/ Report
    \/ NoReport

\* main() on the reference configuration, for train loaders of several lengths
Next ==
    \/ Construct
    \/ TrainMode
    \/ TrainStep
    \/ EvalMode
    \/ TestFetch(MaxTestSmall)
    \/ TestExhausted
    \/ TestForward
    \/ TestPredict
    \/ TestCount
    \/ PrintAccuracy
    \/ Finish

Spec == Init /\ [][Next]_vars

\* The same run under the scheduling of a sequential program: a statement that
\* can execute does execute.
FairSpec == Init /\ [][Next]_vars /\ WF_vars(Next)

\* main() with an empty train loader, for test loaders of up to MaxTestExamples
\* examples in batches of any sizes
EvalInit == InitRun(ReferenceConfig, 0)

EvalNext ==
    \/ Construct
    \/ TrainMode
    \/ EpochStart
    \/ EpochEnd
    \/ EvalMode
    \/ TestFetch(MaxTestExamples)
    \/ TestExhausted
    \/ TestForward
    \/ TestPredict
    \/ TestCount
    \/ PrintAccuracy
    \/ Finish

EvalSpec == EvalInit /\ [][EvalNext]_vars

\* The module-level constants varied: main() up to its first forward pass
Configs ==
    [image_size : 1 .. MaxImageSize, patch_size : 1 .. MaxPatchSize,
     embed_dim : 1 .. MaxEmbedDim, num_heads : 1 .. MaxHeads]

ConfigInit == \E c \in Configs \cup {ReferenceConfig} : InitRun(c, 1)

ConfigNext ==
    \/ Construct
    \/ TrainMode
    \/ EpochStart
    \/ FetchBatch
    \/ ZeroGrad
    \/ TrainForward

ConfigSpec == ConfigInit /\ [][ConfigNext]_vars


(***************************************************************************)
(* Properties.                                                             *)
(***************************************************************************)
ExpectedOps == <<"zero_grad", "forward", "loss", "backward", "step", "accumulate">>
BodyPcs == <<"zero_grad", "forward", "loss", "backward", "step", "accumulate", "report">>
TestPcs == {"test_fetch", "test_forward", "test_predict", "test_count", "print",
            "finish", "done"}
StepsApplied(n) == \A g \in UsedInForward : optState[g] = n

\* C1: on every training batch the steps zero_grad, forward, loss, backward,
\* optimiser step, accumulate happen once each and in this order; when the
\* optimiser steps, every gradient it reads comes from the current batch alone;
\* and whenever the loader is asked for a batch, every batch drawn so far has had
\* its optimiser step.
C1_TrainingOrder ==
    /\ \A k \in DOMAIN BodyPcs :
          pc = BodyPcs[k] => batchOps = SubSeq(ExpectedOps, 1, k - 1)
    /\ (pc = "fetch" /\ fetched > 0 /\ index > 0) => batchOps = ExpectedOps
    /\ pc = "step" => \A g \in UsedInForward : grads[g] = {<<epoch, index>>}
    /\ pc \in {"fetch", "epoch"} => StepsApplied(fetched)
    /\ pc \in {"zero_grad", "forward", "loss", "backward", "step"} =>
          StepsApplied(fetched - 1)

C1_Witness ==
    /\ pc = "fetch"
    /\ epoch = 1
    /\ index = 2
    /\ batchOps = ExpectedOps
    /\ StepsApplied(trainBatches + 2)

\* C2: the accuracy printed is exactly 100 * (examples whose first maximal logit
\* is at their label) / (examples yielded), whatever the batches were.
TrueCorrect ==
    Cardinality({i \in DOMAIN evalSeen :
                    ArgMax(net[evalSeen[i].image]) = evalSeen[i].label})

C2_Accuracy ==
    pc \in {"finish", "done"} =>
        /\ Len(evalSeen) > 0
        /\ accuracy = Ratio(100 * TrueCorrect, Len(evalSeen))

\* labels [0,1,0,1], predictions [0,1,1,1], in more than one batch: 75
C2_Witness ==
    /\ pc = "done"
    /\ Len(evalSeen) = 4
    /\ Len(labels) < 4
    /\ [i \in 1 .. 4 |-> evalSeen[i].label] = <<0, 1, 0, 1>>
    /\ [i \in 1 .. 4 |-> ArgMax(net[evalSeen[i].image])] = <<0, 1, 1, 1>>
    /\ accuracy = <<75, 1>>

\* C3: once the first batch has had its forward pass, backward pass and optimiser
\* step, every parameter returned by parameters() has received a gradient and has
\* been changed.
C3_EveryParameterUpdated ==
    (fetched = 1 /\ pc = "accumulate") =>
        \A g \in ParamGroups : grads[g] # {} /\ params[g].ver > 0

\* C4: while the model is in non-training mode no step changes the parameters,
\* the optimiser state or the gradients.
C4_EvalFrame == [][~training => UNCHANGED <<params, optState, grads>>]_vars

C4_Witness ==
    /\ pc = "done"
    /\ Len(evalSeen) > 0
    /\ StepsApplied(num_epochs * ReportEvery)

\* C5: a configuration with embed_dim not divisible by num_heads, or image_size
\* not divisible by patch_size, is never constructed successfully.
InvalidConfig(c) ==
    c.embed_dim % c.num_heads # 0 \/ c.image_size % c.patch_size # 0

C5_InvalidConfigRejected == InvalidConfig(config) => built # "ok"

C7_NonFiniteLossAborts ==
    ~IsFinite(loss) => (StepsApplied(fetched - 1) /\ pc \notin TestPcs)

\* C8: every forward pass of the training loop runs in training mode; every
\* forward pass of the testing loop runs in non-training mode without gradient
\* tracking and drops nothing, so an image gets one logit row however often it is
\* passed through the model.
C8_Modes ==
    /\ pc \in {"loss", "backward", "step", "accumulate", "report"} => outputs.training
    /\ pc \in {"test_predict", "test_count"} =>
          /\ ~outputs.training
          /\ ~outputs.requires_grad
          /\ outputs.dropped = {}
    /\ \A x \in Images : evalLog[x] # {} => evalLog[x] = {net[x]}

\* after a training run, the same image has gone through the model in two forward
\* passes of the testing loop
C8_Witness ==
    /\ pc = "test_predict"
    /\ Len(evalSeen) = 2
    /\ Len(images) = 1
    /\ evalSeen[1].image = evalSeen[2].image
    /\ evalLog[images[1]] = {<<1, 0>>}
    /\ fetched > 0

\* C9: within each epoch a report is printed after batch 50, 100, ... and after no
\* other; it carries the loss of the batch just processed; and printing it changes
\* neither the parameters, the optimiser state, the gradients nor the batches drawn.
C9_ReportCount ==
    /\ pc = "fetch" =>
          numReports = epoch * (trainBatches \div ReportEvery) + (index \div ReportEvery)
    /\ (pc = "fetch" /\ index > 0 /\ index % ReportEvery = 0) =>
          /\ lastReport.epoch = epoch + 1
          /\ lastReport.index = index - 1
          /\ lastReport.loss = loss

C9_Reporting ==
    /\ []C9_ReportCount
    /\ [][numReports' # numReports =>
            /\ UNCHANGED <<params, optState, grads, epoch, trainBatches, fetched, loss>>
            /\ index' = index + 1
            /\ pc' = "fetch"]_vars

C9_Witness ==
    /\ pc = "fetch"
    /\ numReports = 2
    /\ lastReport.epoch = 2
    /\ lastReport.index = ReportEvery - 1
    /\ lastReport.loss = Fin(2)
    /\ running_loss = Fin(0)

\* C10: the run ends; when it ends normally every batch of every epoch has had
\* exactly one optimiser step, the testing loop has counted each example of the
\* test loader once and printed one accuracy, and nothing of the testing loop
\* happens before the last optimiser step.
C10_Counts ==
    /\ pc \in TestPcs =>
          /\ epoch = num_epochs
          /\ fetched = num_epochs * trainBatches
          /\ StepsApplied(num_epochs * trainBatches)
    /\ pc \in {"finish", "done"} => total = Len(evalSeen) /\ accuracyPrints = 1
    /\ pc \notin {"finish", "done"} => accuracyPrints = 0
    /\ pc \notin TestPcs => Len(evalSeen) = 0 /\ total = 0

C10_Termination ==
    /\ <>(pc = "done" \/ error # "none")
    /\ []C10_Counts

C10_Witness ==
    /\ pc = "done"
    /\ trainBatches > ReportEvery
    /\ total = 2

====
